---- MODULE Spec2Model ----
(***************************************************************************)
(* A model of html_parse.py: the node classes, the HtmlParser event        *)
(* handlers that build the tree, and the get_all_nodes generator.          *)
(*                                                                         *)
(* Objects live in a heap `nodes`: a sequence of records whose index is    *)
(* the object's identity.  Strings are sequences of code points, so that   *)
(* concatenation, chr() and int() are computed rather than assumed.        *)
(* A Python dict is a set of <<key, value>> pairs with distinct keys.      *)
(***************************************************************************)
EXTENDS Integers, Sequences, FiniteSets, TLC

\* ---- bounds of the exploration -----------------------------------------
MaxEvents == 5
MaxTravEvents == 4
MaxFindEvents == 2
MaxRefEvents == 2
MaxPrintEvents == 3

\* ---- strings used as inputs (code points) ------------------------------
S_x == <<120>>
S_amp == <<97, 109, 112>>
S_zz == <<122, 122>>
S_x41 == <<120, 52, 49>>
S_zzz == <<122, 122, 122>>
S_doctype == <<68>>
S_1 == <<49>>
S_2 == <<50>>
S_xy == <<120, 121>>
S_x_y == <<120, 32, 121>>

Tags == {"a", "b"}
\* start tags: a tag name and its attribute list
StartTags == {<<"a", <<>>>>, <<"b", << <<"id", S_1>>, <<"id", S_2>> >> >>}
DataTexts == {S_x}
EntityNames == {S_amp, S_zz}
CharRefs == {S_x41, S_zzz}
DeclTexts == {S_doctype}
\* start tags of the trees find_tags is applied to
FindStartTags ==
    {<<"a", << <<"class", S_x_y>> >> >>,
     <<"b", << <<"class", S_xy>> >> >>,
     <<"b", << <<"id", S_1>>, <<"class", S_x>> >> >>}
\* the filters given to find_tags: name ({} for None), attrs, in_attrs
FindQueries ==
    {[name |-> {}, attrs |-> {}, in_attrs |-> {}],
     [name |-> {"b"}, attrs |-> {}, in_attrs |-> {}],
     [name |-> {}, attrs |-> {<<"class", S_x_y>>}, in_attrs |-> {}],
     [name |-> {}, attrs |-> {}, in_attrs |-> {<<"class", S_x>>}],
     [name |-> {}, attrs |-> {}, in_attrs |-> {<<"class", S_xy>>}],
     [name |-> {"b"}, attrs |-> {<<"id", S_1>>},
      in_attrs |-> {<<"class", S_x>>}]}
\* entity names given to EntityRef: amp, lt, gt, nbsp, zz, the empty
\* name, Amp
RefEntityNames ==
    {<<97, 109, 112>>,
     <<108, 116>>,
     <<103, 116>>,
     <<110, 98, 115, 112>>,
     <<122, 122>>,
     <<>>,
     <<65, 109, 112>>}
\* reference bodies given to CharRef: 65, x41, zzz, X41, the empty body,
\* x, -1, 1114112, x110000, x10ffff, 0, +65, " 65", 6_5, x0x41
RefCharRefs ==
    {<<54, 53>>,
     <<120, 52, 49>>,
     <<122, 122, 122>>,
     <<88, 52, 49>>,
     <<>>,
     <<120>>,
     <<45, 49>>,
     <<49, 49, 49, 52, 49, 49, 50>>,
     <<120, 49, 49, 48, 48, 48, 48>>,
     <<120, 49, 48, 102, 102, 102, 102>>,
     <<48>>,
     <<43, 54, 53>>,
     <<32, 54, 53>>,
     <<54, 95, 53>>,
     <<120, 48, 120, 52, 49>>}
\* start tags between the references: no attribute, one name given twice,
\* one name given twice around another
RefStartTags ==
    {<<"a", <<>>>>,
     <<"b", << <<"id", S_1>>, <<"id", S_2>> >> >>,
     <<"b", << <<"id", S_2>>, <<"class", S_x>>, <<"id", S_1>> >> >>}
\* the level arguments given to print_node (0 for the default None)
PrintLevels == {0, 98, 99, 100, 101}
\* root sequences handed to get_all_nodes: at most two nodes of the heap
RootLists(heap) ==
    {<<>>} \cup {<<r>> : r \in DOMAIN heap}
           \cup {<<r, q>> : r \in DOMAIN heap, q \in DOMAIN heap}

\* ---- node model --------------------------------------------------------
None == 0
doc_node == 1

\* DocHtmlNode(): no parent, empty childs (decl is the variable `decl`)
DocHtmlNode ==
    [kind |-> "Doc", parent |-> None, name |-> "", attrs |-> {},
     childs |-> <<>>, data |-> <<>>]

\* TagHtmlNode(name, parent=parent): empty attrs, empty childs
TagHtmlNode(name, parent) ==
    [kind |-> "Tag", parent |-> parent, name |-> name, attrs |-> {},
     childs |-> <<>>, data |-> <<>>]

\* DataHtmlNode(data, parent=parent): a node without childs
DataHtmlNode(data, parent) ==
    [kind |-> "Data", parent |-> parent, name |-> "", attrs |-> {},
     childs |-> <<>>, data |-> data]

\* HtmlNode.get_parent: the referent of the parent reference, or None.
\* The reference is weak, but while the parser lives every node is held by
\* the childs of its parent and the Document by the parser, so the referent
\* of a set reference is always alive.
get_parent(heap, n) == heap[n].parent

\* variant: a key that is already there keeps its value
dict_update_keep(d, pairs) ==
    d \cup {pairs[i] : i \in {i \in DOMAIN pairs :
                                /\ \A p \in d : p[1] # pairs[i][1]
                                /\ \A j \in DOMAIN pairs :
                                      j < i => pairs[j][1] # pairs[i][1]}}

\* dict.update(attrs) for a sequence of (key, value) pairs, in order
RECURSIVE dict_update(_, _)
dict_update(d, pairs) ==
    IF pairs = <<>> THEN d
    ELSE dict_update({p \in d : p[1] # Head(pairs)[1]} \cup {Head(pairs)},
                     Tail(pairs))

\* ---- entity and character references -----------------------------------
\* a fragment of html.entities.name2codepoint
name2codepoint ==
    {<<S_amp, 38>>, <<<<108, 116>>, 60>>, <<<<103, 116>>, 62>>,
     <<<<110, 98, 115, 112>>, 160>>}

MaxCodePoint == 1114111

\* chr(code): a one-character string, or ValueError/OverflowError
chr(code) ==
    IF code >= 0 /\ code <= MaxCodePoint
    THEN [ok |-> TRUE, val |-> <<code>>]
    ELSE [ok |-> FALSE, val |-> <<>>]

IsSpace(c) == c \in {9, 10, 11, 12, 13, 32}

RECURSIVE lstrip(_)
lstrip(s) == IF s # <<>> /\ IsSpace(Head(s)) THEN lstrip(Tail(s)) ELSE s

RECURSIVE rstrip(_)
rstrip(s) ==
    IF s # <<>> /\ IsSpace(s[Len(s)]) THEN rstrip(SubSeq(s, 1, Len(s) - 1))
    ELSE s

\* the value of one digit character in the given base, or -1
DigitVal(c, base) ==
    LET v == IF c >= 48 /\ c <= 57 THEN c - 48
             ELSE IF c >= 97 /\ c <= 122 THEN c - 97 + 10
             ELSE IF c >= 65 /\ c <= 90 THEN c - 65 + 10
             ELSE -1
    IN IF v >= 0 /\ v < base THEN v ELSE -1

\* digits with single underscores between them; acc is the value so far,
\* prev is TRUE when the previous character was a digit
RECURSIVE ParseDigits(_, _, _, _, _)
ParseDigits(s, base, acc, prev, any) ==
    IF s = <<>> THEN [ok |-> prev /\ any, val |-> acc]
    ELSE IF Head(s) = 95
         THEN IF prev THEN ParseDigits(Tail(s), base, acc, FALSE, any)
              ELSE [ok |-> FALSE, val |-> 0]
         ELSE IF DigitVal(Head(s), base) < 0 THEN [ok |-> FALSE, val |-> 0]
              ELSE ParseDigits(Tail(s), base,
                               acc * base + DigitVal(Head(s), base),
                               TRUE, TRUE)

\* int(s, base) for base 10 and 16: surrounding whitespace, a sign, for base
\* 16 a 0x prefix, then digits; ok = FALSE models ValueError
int(s, base) ==
    LET t == rstrip(lstrip(s))
        neg == t # <<>> /\ Head(t) = 45
        u == IF t # <<>> /\ Head(t) \in {43, 45} THEN Tail(t) ELSE t
        pre == base = 16 /\ Len(u) >= 2 /\ u[1] = 48 /\ u[2] \in {120, 88}
        v == IF pre THEN SubSeq(u, 3, Len(u)) ELSE u
        \* after a base prefix one underscore may precede the digits
        r2 == ParseDigits(v, base, 0, pre, FALSE)
    IN [ok |-> r2.ok, val |-> IF neg THEN 0 - r2.val ELSE r2.val]

\* variant: the fallback text lacks the closing semicolon
entityref_data_nosemi(name) ==
    IF \E p \in name2codepoint : p[1] = name
    THEN <<(CHOOSE p \in name2codepoint : p[1] = name)[2]>>
    ELSE <<38>> \o name

\* the text _entityref_handle passes to _data_handle
entityref_data(name) ==
    IF \E p \in name2codepoint : p[1] = name
    THEN LET code == (CHOOSE p \in name2codepoint : p[1] = name)[2]
         IN IF chr(code).ok THEN chr(code).val ELSE <<38>> \o name \o <<59>>
    ELSE <<38>> \o name \o <<59>>

\* the text _charref_handle passes to _data_handle
charref_data(name) ==
    LET code == IF name # <<>> /\ Head(name) = 120
                THEN int(Tail(name), 16) ELSE int(name, 10)
    IN IF code.ok /\ chr(code.val).ok THEN chr(code.val).val
       ELSE <<38, 35>> \o name \o <<59>>

\* ---- the builder's handlers --------------------------------------------
\* the loop of _starttag_handle and _data_handle: climb from n while the
\* node is neither a DocHtmlNode nor a TagHtmlNode.  The result None means
\* the loop reached a missing parent, where get_parent raises
\* AttributeError.  (fuel only makes the recursion well-founded.)
RECURSIVE climb(_, _, _)
climb(heap, n, fuel) ==
    IF n = None \/ fuel = 0 THEN None
    ELSE IF heap[n].kind \in {"Doc", "Tag"} THEN n
    ELSE climb(heap, get_parent(heap, n), fuel - 1)

\* variant: the cursor itself is taken as the parent, without the climb
parent_node_noclimb(heap, cur) == cur

parent_node(heap, cur) == climb(heap, cur, Len(heap) + 1)

\* variant: the child goes to the Document's childs whatever its parent
append_child_todoc(heap, p, child) ==
    [heap EXCEPT ![doc_node].childs = Append(@, child)]

\* variant: the child is put before the childs already there
append_child_first(heap, p, child) ==
    [heap EXCEPT ![p].childs = <<child>> \o @]

\* variant: the child takes the place of the childs already there
append_child_replace(heap, p, child) ==
    [heap EXCEPT ![p].childs = <<child>>]

\* parent_node.childs.append(new_node): child appended to the childs of p
append_child(heap, p, child) ==
    [heap EXCEPT ![p].childs = Append(@, child)]

\* TagHtmlNode(tag, parent=parent_node); new_node.attrs.update(attrs)
new_tag_node(tag, attrs, parent) ==
    [TagHtmlNode(tag, parent) EXCEPT !.attrs = dict_update(@, attrs)]

\* variant: the parent argument is not passed on
new_data_node_orphan(data, parent) == DataHtmlNode(data, None)

\* DataHtmlNode(data, parent=parent_node)
new_data_node(data, parent) == DataHtmlNode(data, parent)

\* variant: self._curr_node is not moved to the new node
starttag_handle_nocursor(heap, cur, tag, attrs) ==
    LET p == parent_node(heap, cur)
        new == Len(heap) + 1
    IN IF p = None
       THEN [nodes |-> heap, curr |-> cur, raised |-> TRUE]
       ELSE [nodes |-> append_child(Append(heap, new_tag_node(tag, attrs, p)),
                                    p, new),
             curr |-> cur, raised |-> FALSE]

\* _starttag_handle(tag, attrs)
starttag_handle(heap, cur, tag, attrs) ==
    LET p == parent_node(heap, cur)
        new == Len(heap) + 1
    IN IF p = None
       THEN [nodes |-> heap, curr |-> cur, raised |-> TRUE]
       ELSE [nodes |-> append_child(Append(heap, new_tag_node(tag, attrs, p)),
                                    p, new),
             curr |-> new, raised |-> FALSE]

\* the loop of _endtag_handle: the node the walk stops at.  It is the
\* first TagHtmlNode named tag, else the DocHtmlNode, else None when the
\* walk reaches a missing parent (AttributeError).
RECURSIVE closing_node(_, _, _, _)
closing_node(heap, n, tag, fuel) ==
    IF n = None \/ fuel = 0 THEN None
    ELSE IF heap[n].kind = "Doc" THEN n
    ELSE IF heap[n].kind = "Tag" /\ heap[n].name = tag THEN n
    ELSE closing_node(heap, get_parent(heap, n), tag, fuel - 1)

\* variant: the cursor moves to the matched node, not to its parent
endtag_cursor_stay(heap, cur, c) ==
    IF heap[c].kind = "Doc" THEN cur ELSE c

\* variant: an unmatched end tag moves the cursor to the Document
endtag_cursor_reset(heap, cur, c) ==
    IF heap[c].kind = "Doc" THEN c ELSE get_parent(heap, c)

\* variant: an unmatched end tag moves the cursor off a Text node
endtag_cursor_offtext(heap, cur, c) ==
    IF heap[c].kind = "Doc"
    THEN (IF heap[cur].kind = "Data" THEN get_parent(heap, cur) ELSE cur)
    ELSE get_parent(heap, c)

\* the cursor after _endtag_handle found the node c
endtag_cursor(heap, cur, c) ==
    IF heap[c].kind = "Doc" THEN cur ELSE get_parent(heap, c)

\* _endtag_handle(tag)
endtag_handle(heap, cur, tag) ==
    LET c == closing_node(heap, cur, tag, Len(heap) + 1)
    IN IF c = None
       THEN [nodes |-> heap, curr |-> cur, raised |-> TRUE]
       ELSE [nodes |-> heap, curr |-> endtag_cursor(heap, cur, c),
             raised |-> FALSE]

\* variant: the text is put before the buffer of a Text cursor
data_handle_prepend(heap, cur, data) ==
    IF cur # None /\ heap[cur].kind = "Data"
    THEN [nodes |-> [heap EXCEPT ![cur].data = data \o @],
          curr |-> cur, raised |-> FALSE]
    ELSE LET p == parent_node(heap, cur)
             new == Len(heap) + 1
         IN IF p = None
            THEN [nodes |-> heap, curr |-> cur, raised |-> TRUE]
            ELSE [nodes |-> append_child(
                                Append(heap, new_data_node(data, p)), p, new),
                  curr |-> new, raised |-> FALSE]

\* variant: every text event makes a new Text node
data_handle_nocoalesce(heap, cur, data) ==
    LET p == parent_node(heap, cur)
        new == Len(heap) + 1
    IN IF p = None
       THEN [nodes |-> heap, curr |-> cur, raised |-> TRUE]
       ELSE [nodes |-> append_child(
                           Append(heap, new_data_node(data, p)), p, new),
             curr |-> new, raised |-> FALSE]

\* _data_handle(data)
data_handle(heap, cur, data) ==
    IF cur # None /\ heap[cur].kind = "Data"
    THEN [nodes |-> [heap EXCEPT ![cur].data = @ \o data],
          curr |-> cur, raised |-> FALSE]
    ELSE LET p == parent_node(heap, cur)
             new == Len(heap) + 1
         IN IF p = None
            THEN [nodes |-> heap, curr |-> cur, raised |-> TRUE]
            ELSE [nodes |-> append_child(
                                Append(heap, new_data_node(data, p)), p, new),
                  curr |-> new, raised |-> FALSE]

\* _entityref_handle(name)
entityref_handle(heap, cur, name) ==
    data_handle(heap, cur, entityref_data(name))

\* _charref_handle(name)
charref_handle(heap, cur, name) ==
    data_handle(heap, cur, charref_data(name))

\* variant: the declaration replaces the earlier ones
decl_handle_replace(d, text) == <<text>>

\* _decl_handle(decl): self._doc_node.decl.append(decl)
decl_handle(d, text) == Append(d, text)

\* ---- get_all_nodes -----------------------------------------------------
\* variant: the childs are queued before the nodes already waiting
extend_next_front(next_node_list, childs) == childs \o next_node_list

\* next_node_list += node.childs
extend_next(next_node_list, childs) == next_node_list \o childs

\* variant: only the Document is taken to have childs
HasChilds_doconly(heap, n) == heap[n].kind = "Doc"

\* isinstance(node, DocHtmlNode) or isinstance(node, TagHtmlNode)
HasChilds(heap, n) == heap[n].kind \in {"Doc", "Tag"}

\* the generator object right after get_all_nodes(node_list, direct_only)
\* was called: nothing has run yet
gen_create(node_list, direct_only) ==
    [pc |-> "created", direct_only |-> direct_only, node_iter |-> node_list,
     next_node_list |-> <<>>, pending |-> None, child_iter |-> <<>>,
     yield |-> None]

NoGen ==
    [pc |-> "none", direct_only |-> FALSE, node_iter |-> <<>>,
     next_node_list |-> <<>>, pending |-> None, child_iter |-> <<>>,
     yield |-> None]

\* the code between two suspensions of the generator: run from the current
\* position to the next yield (pc "suspended", the value in .yield) or to
\* the return (pc "done").  pending is the node whose yield the generator
\* is suspended at and whose childs are still to be queued; child_iter is
\* the rest of the inner loop over node.childs in direct_only mode.
RECURSIVE gen_run(_, _, _)
gen_run(heap, g, fuel) ==
    IF fuel = 0 THEN [g EXCEPT !.pc = "done", !.yield = None]
    ELSE IF g.pending # None
    THEN gen_run(heap,
                 [g EXCEPT !.pending = None,
                           !.next_node_list =
                               IF HasChilds(heap, g.pending)
                               THEN extend_next(@, heap[g.pending].childs)
                               ELSE @],
                 fuel - 1)
    ELSE IF g.child_iter # <<>>
    THEN [g EXCEPT !.pc = "suspended", !.yield = Head(g.child_iter),
                   !.child_iter = Tail(@)]
    ELSE IF g.node_iter # <<>>
    THEN LET node == Head(g.node_iter)
         IN IF ~g.direct_only
            THEN [g EXCEPT !.pc = "suspended", !.yield = node,
                           !.node_iter = Tail(@), !.pending = node]
            ELSE gen_run(heap,
                         [g EXCEPT !.node_iter = Tail(@),
                                   !.child_iter =
                                       IF HasChilds(heap, node)
                                       THEN heap[node].childs ELSE <<>>],
                         fuel - 1)
    ELSE IF g.next_node_list = <<>>
    THEN [g EXCEPT !.pc = "done", !.yield = None]
    ELSE gen_run(heap,
                 [g EXCEPT !.node_iter = g.next_node_list,
                           !.next_node_list = <<>>],
                 fuel - 1)

\* more steps than one run of the generator can take
GenFuel(heap, roots) == 4 * Len(heap) + 4 * Len(roots) + 4

\* variant: next_node_list is bound to the Document's childs, so that the
\* in-place += of line 197 extends that list
gen_stores_alias(heap, g, g2) ==
    [heap EXCEPT ![doc_node].childs = @ \o g2.next_node_list]

\* the heap after the stores of one run of the generator from g to g2.
\* The run reads node.childs and the caller's list; its one in-place
\* operation, next_node_list += node.childs, extends a list made by the
\* [] of line 188 or 208, so no node is stored to.
gen_stores(heap, g, g2) == heap

\* ---- print_node ---------------------------------------------------------
\* one call of print_func: the indentation, the words of the line and the
\* value formatted into it; node is the node the line was printed for
Line(node, indent, line, name, attrs, text, d) ==
    [node |-> node, indent |-> indent, line |-> line, name |-> name,
     attrs |-> attrs, text |-> text, decl |-> d]

MaxLevel == 100

\* variant: the level MaxLevel itself is let through
level_too_big_above(level) == level > MaxLevel

\* if level >= 100
level_too_big(level) == level >= MaxLevel

\* print_node(node, level=level, print_func=print_func): the lines passed
\* to print_func, in order; d is the decl list of the Document
RECURSIVE print_node(_, _, _, _)
RECURSIVE print_childs(_, _, _, _)
print_node(heap, d, node, level) ==
    LET next_level == level + 1
        self_indent == level * 2
        attr_indent == self_indent + 4
    IN IF level_too_big(level)
       THEN <<Line(node, self_indent, "Error: level too big",
                   "", {}, <<>>, <<>>)>>
       ELSE IF heap[node].kind = "Data"
       THEN <<Line(node, self_indent, "DataHtmlNode", "", {},
                   heap[node].data, <<>>)>>
       ELSE IF heap[node].kind = "Doc"
       THEN <<Line(node, self_indent, "DocHtmlNode", "", {}, <<>>, <<>>),
              Line(node, attr_indent, "decl", "", {}, <<>>, d)>>
            \o print_childs(heap, d, heap[node].childs, next_level)
       ELSE <<Line(node, self_indent, "TagHtmlNode", heap[node].name,
                   {}, <<>>, <<>>),
              Line(node, attr_indent, "attrs", "", heap[node].attrs,
                   <<>>, <<>>)>>
            \o print_childs(heap, d, heap[node].childs, next_level)

\* for child in node.childs: print_node(child, level=next_level, ...)
print_childs(heap, d, childs, next_level) ==
    IF childs = <<>> THEN <<>>
    ELSE print_node(heap, d, Head(childs), next_level)
         \o print_childs(heap, d, Tail(childs), next_level)

\* ---- find_tags ----------------------------------------------------------
\* str.split(' '): the pieces between single spaces, empty ones included
RECURSIVE split(_)
split(s) ==
    IF \E i \in DOMAIN s : s[i] = 32
    THEN LET i == CHOOSE i \in DOMAIN s :
                     s[i] = 32 /\ \A j \in 1 .. (i - 1) : s[j] # 32
         IN <<SubSeq(s, 1, i - 1)>> \o split(SubSeq(s, i + 1, Len(s)))
    ELSE <<s>>

\* attr_name in d
dict_has(d, k) == \E p \in d : p[1] = k

\* d[attr_name]
dict_get(d, k) == (CHOOSE p \in d : p[1] = k)[2]

\* variant: the value is searched as a string, not as a list of tokens
check_filter_substr(heap, n, name, attrs, in_attrs) ==
    /\ heap[n].kind = "Tag"
    /\ name = {} \/ name = {heap[n].name}
    /\ \A p \in attrs :
          dict_has(heap[n].attrs, p[1]) /\ dict_get(heap[n].attrs, p[1]) = p[2]
    /\ \A p \in in_attrs :
          /\ dict_has(heap[n].attrs, p[1])
          /\ LET v == dict_get(heap[n].attrs, p[1])
             IN \E i \in 0 .. Len(v) :
                   i + Len(p[2]) <= Len(v)
                   /\ SubSeq(v, i + 1, i + Len(p[2])) = p[2]

\* check_filter(node) of find_tags; name is {} for None and {name}
\* otherwise, attrs and in_attrs are dicts
check_filter(heap, n, name, attrs, in_attrs) ==
    /\ heap[n].kind = "Tag"
    /\ name = {} \/ name = {heap[n].name}
    /\ \A p \in attrs :
          dict_has(heap[n].attrs, p[1]) /\ dict_get(heap[n].attrs, p[1]) = p[2]
    /\ \A p \in in_attrs :
          /\ dict_has(heap[n].attrs, p[1])
          /\ p[2] \in {split(dict_get(heap[n].attrs, p[1]))[i] :
                         i \in DOMAIN split(dict_get(heap[n].attrs, p[1]))}

\* filter(check_filter, ...) with the arguments check_filter closes over
filter_create(name, attrs, in_attrs) ==
    [active |-> TRUE, name |-> name, attrs |-> attrs, in_attrs |-> in_attrs]

NoFilter == [active |-> FALSE, name |-> {}, attrs |-> {}, in_attrs |-> {}]

\* next() on the filter object: next() on the generator until it yields a
\* node that passes check_filter (.result) or returns (.result = None);
\* .seen are the nodes the generator yielded on the way
RECURSIVE filter_run(_, _, _, _, _)
filter_run(heap, g, f, seen, fuel) ==
    LET g2 == gen_run(heap, g, fuel)
    IN IF g2.pc = "done" \/ fuel = 0
       THEN [gen |-> g2, seen |-> seen, result |-> None]
       ELSE IF check_filter(heap, g2.yield, f.name, f.attrs, f.in_attrs)
       THEN [gen |-> g2, seen |-> Append(seen, g2.yield), result |-> g2.yield]
       ELSE filter_run(heap, g2, f, Append(seen, g2.yield), fuel - 1)

\* ---- state -------------------------------------------------------------
VARIABLES
    nodes,      \* the heap of HtmlNode objects; nodes[doc_node] is _doc_node
    curr_node,  \* HtmlParser._curr_node
    decl,       \* _doc_node.decl
    err,        \* TRUE once a handler has raised
    ev,         \* the last event handled
    nev,        \* the number of events handled
    run,        \* history: the text events since the last tag event
    exp,        \* history: the tree a well-nested event sequence denotes
    open,       \* history: the path in exp of the innermost open element
    wf,         \* history: every EndTag so far closed the innermost element
    gen,        \* the get_all_nodes generator, if one was created
    node_list,  \* the caller's root sequence
    out,        \* the values the generator has yielded so far
    flt,        \* the filter object find_tags returned, if it was called
    found,      \* the values the filter object has yielded so far
    printed     \* the lines print_node has passed to print_func

vars == <<nodes, curr_node, decl, err, ev, nev, run, exp, open, wf,
          gen, node_list, out, flt, found, printed>>

Event(type, tag, attrs, text) ==
    [type |-> type, tag |-> tag, attrs |-> attrs, text |-> text]

NoRun == [active |-> FALSE, onText |-> FALSE, base |-> <<>>, text |-> <<>>,
          made |-> 0]

NoPrint == [called |-> FALSE, node |-> None, level |-> 0, lines |-> <<>>]

DocLabel == [kind |-> "Doc", name |-> "", attrs |-> {}, data |-> <<>>]
EmptyExp == (<<>> :> DocLabel)

Init ==
    /\ nodes = <<DocHtmlNode>>
    /\ curr_node = doc_node
    /\ decl = <<>>
    /\ err = FALSE
    /\ ev = Event("none", "", <<>>, <<>>)
    /\ nev = 0
    /\ run = NoRun
    /\ exp = EmptyExp
    /\ open = <<>>
    /\ wf = TRUE
    /\ gen = NoGen
    /\ node_list = <<>>
    /\ out = <<>>
    /\ flt = NoFilter
    /\ found = <<>>
    /\ printed = NoPrint

\* ---- the history variables ---------------------------------------------
\* the number of children the path p has in x
ExpKids(x, p) ==
    Cardinality({q \in DOMAIN x :
                   Len(q) = Len(p) + 1 /\ SubSeq(q, 1, Len(p)) = p})

\* the mapping a start tag's attribute list denotes: the last pair per name
LastWins(attrs) ==
    {attrs[i] : i \in {i \in DOMAIN attrs :
                         \A j \in DOMAIN attrs :
                            j > i => attrs[j][1] # attrs[i][1]}}

\* a tag event ends the run of text events
RunTag == run' = NoRun

\* a text event starts or extends the run
RunText(text) ==
    run' = IF run.active
           THEN [run EXCEPT !.text = @ \o text,
                            !.made = @ + Len(nodes') - Len(nodes)]
           ELSE [active |-> TRUE,
                 onText |-> curr_node # None /\ nodes[curr_node].kind = "Data",
                 base |-> IF curr_node # None /\ nodes[curr_node].kind = "Data"
                          THEN nodes[curr_node].data ELSE <<>>,
                 text |-> text,
                 made |-> Len(nodes') - Len(nodes)]

Malformed == wf' = FALSE /\ exp' = EmptyExp /\ open' = <<>>

ExpStartTag(tag, attrs) ==
    IF ~wf THEN UNCHANGED <<exp, open, wf>>
    ELSE LET p == Append(open, ExpKids(exp, open) + 1)
         IN /\ exp' = exp @@ (p :> [kind |-> "Tag", name |-> tag,
                                    attrs |-> LastWins(attrs), data |-> <<>>])
            /\ open' = p
            /\ wf' = TRUE

ExpEndTag(tag) ==
    IF ~wf THEN UNCHANGED <<exp, open, wf>>
    ELSE IF open # <<>> /\ exp[open].name = tag
    THEN /\ open' = SubSeq(open, 1, Len(open) - 1)
         /\ UNCHANGED <<exp, wf>>
    ELSE Malformed

ExpText(text) ==
    IF ~wf THEN UNCHANGED <<exp, open, wf>>
    ELSE /\ UNCHANGED <<open, wf>>
         /\ IF run.active
            THEN exp' = [exp EXCEPT
                           ![Append(open, ExpKids(exp, open))].data = @ \o text]
            ELSE exp' = exp @@ (Append(open, ExpKids(exp, open) + 1) :>
                                 [kind |-> "Data", name |-> "", attrs |-> {},
                                  data |-> text])

\* ---- the builder's events ----------------------------------------------
CanHandle == nev < MaxEvents /\ gen.pc = "none"

Handled(e, r) ==
    /\ nodes' = r.nodes
    /\ curr_node' = r.curr
    /\ err' = (err \/ r.raised)
    /\ ev' = e
    /\ nev' = nev + 1
    /\ UNCHANGED <<gen, node_list, out, flt, found, printed>>

StartTag(tag, attrs) ==
    /\ CanHandle
    /\ Handled(Event("StartTag", tag, attrs, <<>>),
               starttag_handle(nodes, curr_node, tag, attrs))
    /\ UNCHANGED decl
    /\ RunTag
    /\ ExpStartTag(tag, attrs)

EndTag(tag) ==
    /\ CanHandle
    /\ Handled(Event("EndTag", tag, <<>>, <<>>),
               endtag_handle(nodes, curr_node, tag))
    /\ UNCHANGED decl
    /\ RunTag
    /\ ExpEndTag(tag)

Data(text) ==
    /\ CanHandle
    /\ Handled(Event("Data", "", <<>>, text),
               data_handle(nodes, curr_node, text))
    /\ UNCHANGED decl
    /\ RunText(text)
    /\ ExpText(text)

EntityRef(name) ==
    /\ CanHandle
    /\ Handled(Event("EntityRef", "", <<>>, name),
               entityref_handle(nodes, curr_node, name))
    /\ UNCHANGED decl
    /\ RunText(entityref_data(name))
    /\ ExpText(entityref_data(name))

CharRef(name) ==
    /\ CanHandle
    /\ Handled(Event("CharRef", "", <<>>, name),
               charref_handle(nodes, curr_node, name))
    /\ UNCHANGED decl
    /\ RunText(charref_data(name))
    /\ ExpText(charref_data(name))

Decl(text) ==
    /\ CanHandle
    /\ decl' = decl_handle(decl, text)
    /\ ev' = Event("Decl", "", <<>>, text)
    /\ nev' = nev + 1
    /\ UNCHANGED <<nodes, curr_node, err, run, exp, open, wf,
                   gen, node_list, out, flt, found, printed>>

\* ---- traversal ---------------------------------------------------------
\* get_all_nodes(node_list, direct_only=direct_only) is called
GetAllNodes(roots, direct_only) ==
    /\ gen.pc = "none"
    /\ gen' = gen_create(roots, direct_only)
    /\ node_list' = roots
    /\ out' = <<>>
    /\ UNCHANGED <<nodes, curr_node, decl, err, ev, nev, run, exp, open, wf,
                   flt, found, printed>>

\* next() on the generator
GenNext ==
    /\ gen.pc \in {"created", "suspended"}
    /\ ~flt.active
    /\ gen' = gen_run(nodes, gen, GenFuel(nodes, node_list))
    /\ out' = IF gen'.pc = "suspended" THEN Append(out, gen'.yield) ELSE out
    /\ nodes' = gen_stores(nodes, gen, gen')
    /\ UNCHANGED <<curr_node, decl, err, ev, nev, run, exp, open, wf,
                   node_list, flt, found, printed>>

\* find_tags(node_list, name=, attrs=, in_attrs=, direct_only=) is called
FindTags(roots, q, direct_only) ==
    /\ gen.pc = "none"
    /\ gen' = gen_create(roots, direct_only)
    /\ flt' = filter_create(q.name, q.attrs, q.in_attrs)
    /\ node_list' = roots
    /\ out' = <<>>
    /\ found' = <<>>
    /\ UNCHANGED <<nodes, curr_node, decl, err, ev, nev, run, exp, open, wf,
                   printed>>

\* next() on the filter object
FilterNext ==
    /\ flt.active
    /\ gen.pc \in {"created", "suspended"}
    /\ LET r == filter_run(nodes, gen, flt, <<>>, GenFuel(nodes, node_list))
       IN /\ gen' = r.gen
          /\ out' = out \o r.seen
          /\ found' = IF r.result = None THEN found
                      ELSE Append(found, r.result)
          /\ nodes' = gen_stores(nodes, gen, r.gen)
    /\ UNCHANGED <<curr_node, decl, err, ev, nev, run, exp, open, wf,
                   node_list, flt, printed>>

\* print_node(node, level=level, print_func=lines.append) returned; a
\* behaviour follows one such call
PrintNode(node, level) ==
    /\ gen.pc = "none"
    /\ ~printed.called
    /\ printed' = [called |-> TRUE, node |-> node, level |-> level,
                   lines |-> print_node(nodes, decl, node, level)]
    /\ UNCHANGED <<nodes, curr_node, decl, err, ev, nev, run, exp, open, wf,
                   gen, node_list, out, flt, found>>

\* ---- specifications ----------------------------------------------------
Next ==
    \/ \E st \in StartTags : StartTag(st[1], st[2])
    \/ \E tag \in Tags : EndTag(tag)
    \/ \E text \in DataTexts : Data(text)
    \/ \E name \in EntityNames : EntityRef(name)
    \/ \E name \in CharRefs : CharRef(name)
    \/ \E text \in DeclTexts : Decl(text)

Spec == Init /\ [][Next]_vars

\* building a tree with tags and text, then walking it
NextT ==
    \/ \E tag \in Tags : nev < MaxTravEvents /\ StartTag(tag, <<>>)
    \/ \E tag \in Tags : nev < MaxTravEvents /\ EndTag(tag)
    \/ nev < MaxTravEvents /\ Data(S_x)
    \/ nev < MaxTravEvents /\ Decl(S_doctype)
    \/ \E roots \in RootLists(nodes),
          direct_only \in BOOLEAN : GetAllNodes(roots, direct_only)
    \/ GenNext

SpecT == Init /\ [][NextT]_vars

\* building a tree of elements with attributes, then searching it
NextF ==
    \/ \E st \in FindStartTags :
          nev < MaxFindEvents /\ StartTag(st[1], st[2])
    \/ \E tag \in Tags : nev < MaxFindEvents /\ EndTag(tag)
    \/ nev < MaxFindEvents /\ Data(S_x)
    \/ \E roots \in RootLists(nodes), q \in FindQueries,
          direct_only \in BOOLEAN : FindTags(roots, q, direct_only)
    \/ FilterNext
    \/ \E roots \in RootLists(nodes),
          direct_only \in BOOLEAN : GetAllNodes(roots, direct_only)
    \/ GenNext

SpecF == Init /\ [][NextF]_vars

\* entity and character references of many shapes, between text and tags
NextR ==
    \/ \E name \in RefEntityNames : nev < MaxRefEvents /\ EntityRef(name)
    \/ \E name \in RefCharRefs : nev < MaxRefEvents /\ CharRef(name)
    \/ nev < MaxRefEvents /\ Data(S_x)
    \/ \E st \in RefStartTags : nev < MaxRefEvents /\ StartTag(st[1], st[2])

SpecR == Init /\ [][NextR]_vars

\* building a tree, then printing a node of it from some level
NextP ==
    \/ \E st \in StartTags : nev < MaxPrintEvents /\ StartTag(st[1], st[2])
    \/ nev < MaxPrintEvents /\ EndTag("a")
    \/ nev < MaxPrintEvents /\ Data(S_x)
    \/ nev < MaxPrintEvents /\ Decl(S_doctype)
    \/ \E node \in DOMAIN nodes, level \in PrintLevels : PrintNode(node, level)

SpecP == Init /\ [][NextP]_vars

\* ---- vocabulary of the properties --------------------------------------
\* n, parent(n), parent(parent(n)), ... for as long as there is a node
RECURSIVE Chain(_, _, _)
Chain(heap, n, fuel) ==
    IF n = None \/ fuel = 0 THEN <<>>
    ELSE <<n>> \o Chain(heap, heap[n].parent, fuel - 1)

AncSelf(heap, n) == Chain(heap, n, Len(heap) + 1)

Range(s) == {s[i] : i \in DOMAIN s}

\* the number of positions of the sequence s that hold x
Count(s, x) == Cardinality({i \in DOMAIN s : s[i] = x})

IsContainer(heap, n) == heap[n].kind \in {"Doc", "Tag"}

\* the step handles one event of the given type
Handles(type) == nev' = nev + 1 /\ ev'.type = type

\* everything of node n but its child list is as it was
SameButChilds(n) == [nodes'[n] EXCEPT !.childs = nodes[n].childs] = nodes[n]

\* everything of node n but its text buffer is as it was
SameButData(n) == [nodes'[n] EXCEPT !.data = nodes[n].data] = nodes[n]

\* C1: a StartTag creates exactly one Element with the event's name, whose
\* parent is the nearest Document or Element ancestor-or-self of the cursor
\* (the Text node's parent when the cursor is a Text node); the Element is
\* appended as the last child of that parent and becomes the cursor, and
\* no other node, child list, text buffer or declaration changes.
C1_StartTagAppends ==
    [][Handles("StartTag") =>
        LET ch == AncSelf(nodes, curr_node)
            new == Len(nodes) + 1
        IN \E i \in DOMAIN ch :
             LET p == ch[i]
             IN /\ IsContainer(nodes, p)
                /\ \A j \in 1 .. (i - 1) : ~IsContainer(nodes, ch[j])
                /\ p = IF nodes[curr_node].kind = "Data"
                       THEN nodes[curr_node].parent ELSE curr_node
                /\ Len(nodes') = Len(nodes) + 1
                /\ nodes'[new].kind = "Tag"
                /\ nodes'[new].name = ev'.tag
                /\ nodes'[new].parent = p
                /\ nodes'[new].childs = <<>>
                /\ nodes'[p].childs = Append(nodes[p].childs, new)
                /\ SameButChilds(p)
                /\ \A n \in DOMAIN nodes : n # p => nodes'[n] = nodes[n]
                /\ curr_node' = new
                /\ decl' = decl
                /\ ~err'
    ]_vars

\* a StartTag arrived while the cursor was a Text node inside an Element:
\* the new Element follows that Text node in the Element's child list
C1_Witness ==
    /\ ev.type = "StartTag"
    /\ nodes[curr_node].kind = "Tag"
    /\ LET p == nodes[curr_node].parent
       IN /\ p # doc_node
          /\ Len(nodes[p].childs) >= 2
          /\ nodes[p].childs[Len(nodes[p].childs)] = curr_node
          /\ nodes[nodes[p].childs[Len(nodes[p].childs) - 1]].kind = "Data"

\* node n is an Element named tag
Named(heap, n, tag) == heap[n].kind = "Tag" /\ heap[n].name = tag

\* C2: an EndTag whose name some Element on the cursor's chain has moves the
\* cursor to the parent of the nearest such Element, which takes every
\* Element between the old cursor and the matched one off the cursor's
\* chain; no node is created or removed.
C2_EndTagClosesNearest ==
    [][(/\ Handles("EndTag")
        /\ \E n \in Range(AncSelf(nodes, curr_node)) :
              Named(nodes, n, ev'.tag)) =>
        LET ch == AncSelf(nodes, curr_node)
        IN \E i \in DOMAIN ch :
             /\ Named(nodes, ch[i], ev'.tag)
             /\ \A j \in 1 .. (i - 1) : ~Named(nodes, ch[j], ev'.tag)
             /\ curr_node' = nodes[ch[i]].parent
             /\ \A j \in 1 .. i :
                   ch[j] \notin Range(AncSelf(nodes', curr_node'))
             /\ nodes' = nodes
             /\ decl' = decl
             /\ ~err'
    ]_vars

\* StartTag b, StartTag a, Data x, EndTag b: both elements are closed
C2_Witness ==
    /\ ev.type = "EndTag"
    /\ ev.tag = "b"
    /\ curr_node = doc_node
    /\ Len(nodes) = 4
    /\ nodes[1].childs = <<2>>
    /\ Named(nodes, 2, "b") /\ nodes[2].childs = <<3>>
    /\ Named(nodes, 3, "a") /\ nodes[3].childs = <<4>>
    /\ nodes[4].kind = "Data" /\ nodes[4].data = S_x /\ nodes[4].parent = 3

\* C3: an EndTag whose name no Element on the cursor's chain has changes
\* nothing: cursor, nodes, child lists, text buffers and declarations are
\* as before, and nothing is raised.
C3_StrayEndTagNoOp ==
    [][(/\ Handles("EndTag")
        /\ \A n \in Range(AncSelf(nodes, curr_node)) :
              ~Named(nodes, n, ev'.tag)) =>
        /\ curr_node' = curr_node
        /\ nodes' = nodes
        /\ decl' = decl
        /\ err' = err
    ]_vars

\* the cursor is a Text node below an Element right after an EndTag, which
\* only a dropped EndTag leaves behind
C3_Witness ==
    /\ ev.type = "EndTag"
    /\ nodes[curr_node].kind = "Data"
    /\ nodes[curr_node].parent # doc_node
    /\ ~Named(nodes, nodes[curr_node].parent, ev.tag)

\* C4: a Data event on a Text cursor appends the text to that node's buffer
\* and creates nothing; on a Document or Element cursor it appends one new
\* Text node holding the text as the cursor's last child and moves the
\* cursor to it.
C4_DataAppendsOrCreates ==
    [][Handles("Data") =>
        IF nodes[curr_node].kind = "Data"
        THEN /\ Len(nodes') = Len(nodes)
             /\ nodes'[curr_node].data = nodes[curr_node].data \o ev'.text
             /\ SameButData(curr_node)
             /\ \A n \in DOMAIN nodes : n # curr_node => nodes'[n] = nodes[n]
             /\ curr_node' = curr_node
        ELSE LET new == Len(nodes) + 1
             IN /\ Len(nodes') = Len(nodes) + 1
                /\ nodes'[new].kind = "Data"
                /\ nodes'[new].data = ev'.text
                /\ nodes'[new].parent = curr_node
                /\ nodes'[new].childs = <<>>
                /\ nodes'[curr_node].childs =
                       Append(nodes[curr_node].childs, new)
                /\ SameButChilds(curr_node)
                /\ \A n \in DOMAIN nodes :
                      n # curr_node => nodes'[n] = nodes[n]
                /\ curr_node' = new
    ]_vars

\* a Data event extended the buffer of a Text node that follows an Element
C4_Witness ==
    /\ ev.type = "Data"
    /\ nodes[curr_node].kind = "Data"
    /\ nodes[curr_node].data = <<38>> \o S_x
    /\ Len(nodes[nodes[curr_node].parent].childs) = 2

\* C5 as claimed: every run of text events that no tag event interrupts
\* produces exactly one Text node whose buffer is the concatenation of the
\* run's texts.
C5_RunMakesOneNode ==
    run.active =>
        /\ run.made = 1
        /\ nodes[curr_node].kind = "Data"
        /\ nodes[curr_node].data = run.text

\* C5, amended: a run of text events that no tag event interrupts ends up in
\* exactly one Text node, the cursor.  When the run starts on a Document or
\* Element cursor that node is new and its buffer is the concatenation of
\* the run's texts; when it starts on a Text cursor (left there by a dropped
\* EndTag) no node is created and the buffer is that node's earlier buffer
\* followed by the concatenation.
C5_RunCoalesces ==
    run.active =>
        /\ nodes[curr_node].kind = "Data"
        /\ nodes[curr_node].data = run.base \o run.text
        /\ run.made = (IF run.onText THEN 0 ELSE 1)
        /\ ~run.onText => run.base = <<>>
        /\ nodes[nodes[curr_node].parent].childs
               [Len(nodes[nodes[curr_node].parent].childs)] = curr_node

\* Data x, EntityRef amp, CharRef x41 made one Text node holding x&A
C5_Witness ==
    /\ run.active
    /\ ~run.onText
    /\ ev.type = "CharRef"
    /\ run.text = <<120, 38, 65>>
    /\ nodes[curr_node].data = <<120, 38, 65>>
    /\ Len(nodes) = 2

\* C6: the nodes form a rooted ordered tree: the Document has no parent;
\* every other node occurs exactly once in all child lists together, in the
\* child list of its parent; parent links lead from every node to the
\* Document; Text nodes have no children.
C6_RootedTree ==
    /\ nodes[doc_node].kind = "Doc"
    /\ nodes[doc_node].parent = None
    /\ \A n \in DOMAIN nodes :
         /\ nodes[n].kind = "Doc" => n = doc_node
         /\ nodes[n].kind = "Data" => nodes[n].childs = <<>>
         /\ n # doc_node =>
              /\ nodes[n].parent \in DOMAIN nodes
              /\ Count(nodes[nodes[n].parent].childs, n) = 1
              /\ \A m \in DOMAIN nodes :
                    m # nodes[n].parent => Count(nodes[m].childs, n) = 0
         /\ Count(nodes[doc_node].childs, doc_node) = 0
         /\ LET ch == AncSelf(nodes, n)
            IN /\ Len(ch) <= Len(nodes)
               /\ ch[Len(ch)] = doc_node
    /\ curr_node \in DOMAIN nodes

\* a tree three levels deep with a Text node and two Elements
C6_Witness ==
    /\ Len(nodes) = 5
    /\ \E n \in DOMAIN nodes :
         nodes[n].kind = "Data" /\ Len(AncSelf(nodes, n)) = 4
    /\ \E n \in DOMAIN nodes : Len(nodes[n].childs) = 2

\* position of x in s, 0 when absent
IndexOf(s, x) ==
    IF \E i \in DOMAIN s : s[i] = x THEN CHOOSE i \in DOMAIN s : s[i] = x
    ELSE 0

\* the child positions leading from the Document to node n
RECURSIVE PathOf(_, _, _)
PathOf(heap, n, fuel) ==
    IF n = doc_node THEN <<>>
    ELSE IF n = None \/ fuel = 0 THEN <<0>>
    ELSE IF heap[n].parent = None THEN <<0>>
    ELSE Append(PathOf(heap, heap[n].parent, fuel - 1),
                IndexOf(heap[heap[n].parent].childs, n))

Label(r) ==
    [kind |-> r.kind, name |-> r.name, attrs |-> r.attrs, data |-> r.data]

\* the heap's tree as a map from paths to what the node there holds
TreeOf(heap) ==
    LET P(n) == PathOf(heap, n, Len(heap))
    IN [p \in {P(n) : n \in DOMAIN heap} |->
          Label(heap[CHOOSE n \in DOMAIN heap : P(n) = p])]

\* C7 as claimed: while every EndTag names the innermost open Element the
\* tree is the direct nesting of the events, and once every Element is
\* closed the cursor is the Document node.
C7_NestingCursorAtDocument ==
    wf => /\ TreeOf(nodes) = exp
          /\ open = <<>> => curr_node = doc_node

\* C7, amended: while every EndTag names the innermost open Element the
\* tree is the direct nesting of the events; once every Element is closed
\* the cursor is the Document node, unless the sequence ends with text
\* outside every Element, in which case the cursor is the Text node that
\* holds this text, the last child of the Document.
C7_NestingShape ==
    wf => /\ TreeOf(nodes) = exp
          /\ open = <<>> =>
               IF run.active
               THEN /\ nodes[curr_node].kind = "Data"
                    /\ nodes[curr_node].parent = doc_node
                    /\ nodes[doc_node].childs[Len(nodes[doc_node].childs)]
                           = curr_node
               ELSE curr_node = doc_node

\* StartTag a, StartTag b, Data x, EndTag b, EndTag a
C7_Witness ==
    /\ wf
    /\ open = <<>>
    /\ ev.type = "EndTag" /\ ev.tag = "a"
    /\ curr_node = doc_node
    /\ Len(nodes) = 4
    /\ nodes[1].childs = <<2>>
    /\ Named(nodes, 2, "a") /\ nodes[2].childs = <<3>>
    /\ Named(nodes, 3, "b") /\ nodes[3].childs = <<4>>
    /\ nodes[4].kind = "Data" /\ nodes[4].data = S_x

\* C8: no handler raises, whatever the events: the climbs of StartTag,
\* EndTag and Data never reach a missing parent, and a reference that
\* cannot be resolved becomes text.
C8_NeverRaises == ~err

\* an EndTag was dropped while the cursor was a Text node holding the text
\* of an unparsable character reference, and an Element was opened before
C8_Witness ==
    /\ ~err
    /\ ev.type = "EndTag"
    /\ nodes[curr_node].kind = "Data"
    /\ nodes[curr_node].data = <<38, 35>> \o S_zzz \o <<59>>
    /\ nodes[curr_node].parent # doc_node
    /\ nev = 4

\* C9: a Decl appends its text to the Document's declarations and changes
\* nothing else (cursor, nodes, child lists, text buffers, the running text
\* run); what a traversal yields are nodes of the tree, as many as without
\* the declarations.
C9_DeclOnlyAppends ==
    /\ [][Handles("Decl") =>
            /\ decl' = Append(decl, ev'.text)
            /\ nodes' = nodes
            /\ curr_node' = curr_node
            /\ err' = err
            /\ run' = run
       ]_vars
    /\ [](/\ Range(out) \subseteq DOMAIN nodes
          /\ (gen.pc = "done" /\ node_list = <<doc_node>>) =>
                Len(out) = IF gen.direct_only
                           THEN Len(nodes[doc_node].childs)
                           ELSE Len(nodes))

\* Data x, Decl, Data x gave one Text node, and the walk from the Document
\* yielded the Document and that node
C9_Witness ==
    /\ decl = <<S_doctype>>
    /\ Len(nodes) = 2
    /\ nodes[2].data = S_x \o S_x
    /\ gen.pc = "done"
    /\ ~gen.direct_only
    /\ node_list = <<doc_node>>
    /\ out = <<1, 2>>

\* the child lists of the nodes of s, concatenated
RECURSIVE ChildsOf(_, _)
ChildsOf(heap, s) ==
    IF s = <<>> THEN <<>>
    ELSE (IF IsContainer(heap, Head(s)) THEN heap[Head(s)].childs ELSE <<>>)
         \o ChildsOf(heap, Tail(s))

\* level, then the level below it, and so on
RECURSIVE LevelOrder(_, _, _)
LevelOrder(heap, level, fuel) ==
    IF level = <<>> \/ fuel = 0 THEN <<>>
    ELSE level \o LevelOrder(heap, ChildsOf(heap, level), fuel - 1)

IsPrefix(s, t) == Len(s) <= Len(t) /\ s = SubSeq(t, 1, Len(s))

\* the nodes of the closed subtrees of the roots
Closure(heap, roots) ==
    {n \in DOMAIN heap : \E r \in Range(roots) : r \in Range(AncSelf(heap, n))}

\* what a breadth-first walk has yielded is a prefix of the level order, and
\* all of it once the generator returned
YieldsLevelOrder ==
    (gen.pc \in {"suspended", "done"} /\ ~gen.direct_only) =>
        LET lo == LevelOrder(nodes, node_list, Len(nodes) + 1)
        IN /\ IsPrefix(out, lo)
           /\ gen.pc = "done" => out = lo

\* C10 as claimed: the breadth-first walk yields the level order of the
\* roots' subtrees and every node of these subtrees exactly once.
C10_EveryNodeOnce ==
    /\ YieldsLevelOrder
    /\ (gen.pc = "done" /\ ~gen.direct_only) =>
          /\ Range(out) \subseteq Closure(nodes, node_list)
          /\ \A n \in Closure(nodes, node_list) : Count(out, n) = 1

\* C10, amended: the breadth-first walk yields the level order of the
\* roots' subtrees, and every node once for each position of the root
\* sequence whose closed subtree contains it: exactly once when the roots
\* are distinct and none is a descendant of another.
C10_LevelOrder ==
    /\ YieldsLevelOrder
    /\ (gen.pc = "done" /\ ~gen.direct_only) =>
          \A n \in DOMAIN nodes :
             Count(out, n) =
                Cardinality({i \in DOMAIN node_list :
                               node_list[i] \in Range(AncSelf(nodes, n))})

\* Document -> [a -> [b], Text x], walked from the Document: the Text node
\* of level 1 comes before the Element of level 2
C10_Witness ==
    /\ gen.pc = "done"
    /\ ~gen.direct_only
    /\ node_list = <<doc_node>>
    /\ nodes[1].childs = <<2, 4>>
    /\ nodes[2].childs = <<3>>
    /\ nodes[4].kind = "Data"
    /\ out = <<1, 2, 4, 3>>

\* C11: in direct_only mode the walk yields the child lists of the roots
\* that are Documents or Elements, concatenated in root order, and nothing
\* else: no root for being a root, nothing for a Text root, no grandchild
\* through recursion, and it ends after one pass over the roots.
C11_DirectOnlyChilds ==
    (gen.pc \in {"suspended", "done"} /\ gen.direct_only) =>
        LET kids == ChildsOf(nodes, node_list)
        IN /\ IsPrefix(out, kids)
           /\ gen.pc = "done" => out = kids
           /\ gen.next_node_list = <<>>

\* Document -> [a -> [b], Text x] walked from the Document and the Text
\* node: a and the Text node are yielded as the Document's childs, b is not
C11_Witness ==
    /\ gen.pc = "done"
    /\ gen.direct_only
    /\ nodes[1].childs = <<2, 4>>
    /\ nodes[2].childs = <<3>>
    /\ nodes[4].kind = "Data"
    /\ node_list = <<1, 4>>
    /\ out = <<2, 4>>

\* t occurs in s as a block of consecutive positions
Substring(t, s) ==
    \E i \in 0 .. Len(s) :
       i + Len(t) <= Len(s) /\ SubSeq(s, i + 1, i + Len(t)) = t

\* v is one of the pieces of w between single spaces
IsToken(v, w) ==
    /\ \A i \in DOMAIN v : v[i] # 32
    /\ Substring(<<32>> \o v \o <<32>>, <<32>> \o w \o <<32>>)

\* node n is an Element that passes the filters of f
Passes(heap, n, f) ==
    /\ heap[n].kind = "Tag"
    /\ f.name # {} => heap[n].name \in f.name
    /\ f.attrs \subseteq heap[n].attrs
    /\ \A p \in f.in_attrs :
          \E a \in heap[n].attrs : a[1] = p[1] /\ IsToken(p[2], a[2])

\* what the walk the filter object reads from yields in all
Traversal ==
    IF gen.direct_only THEN ChildsOf(nodes, node_list)
    ELSE LevelOrder(nodes, node_list, Len(nodes) + 1)

\* C12: find_tags yields, in traversal order, exactly the Elements of the
\* traversal whose name is the given one (if one is given), which hold
\* every pair of attrs, and whose value for every key of in_attrs has the
\* given token among its pieces between single spaces; never a Text or
\* Document node.
C12_FindTagsSelects ==
    flt.active =>
        LET Sel(n) == Passes(nodes, n, flt)
            want == SelectSeq(Traversal, Sel)
        IN /\ IsPrefix(found, want)
           /\ gen.pc = "done" => found = want
           /\ \A i \in DOMAIN found : nodes[found[i]].kind = "Tag"

\* Document -> a class="x y" -> b class="xy", searched from the Document
\* for class token x: a is found, b is not
C12_Witness ==
    /\ flt.active
    /\ gen.pc = "done"
    /\ ~gen.direct_only
    /\ flt.in_attrs = {<<"class", S_x>>}
    /\ flt.name = {}
    /\ node_list = <<doc_node>>
    /\ Len(nodes) = 3
    /\ nodes[2].attrs = {<<"class", S_x_y>>}
    /\ nodes[3].attrs = {<<"class", S_xy>>}
    /\ out = <<1, 2, 3>>
    /\ found = <<2>>

\* the step changes tree and cursor as a Data event with this text does:
\* the text goes to the end of a Text cursor's buffer, or into a new Text
\* node that becomes the last child of the cursor and the cursor
InsertsText(text) ==
    /\ ~err'
    /\ decl' = decl
    /\ IF nodes[curr_node].kind = "Data"
       THEN /\ nodes' = [nodes EXCEPT ![curr_node].data = @ \o text]
            /\ curr_node' = curr_node
       ELSE /\ nodes' = Append([nodes EXCEPT ![curr_node].childs =
                                   Append(@, Len(nodes) + 1)],
                               [kind |-> "Data", parent |-> curr_node,
                                name |-> "", attrs |-> {}, childs |-> <<>>,
                                data |-> text])
            /\ curr_node' = Len(nodes) + 1

\* the entity table, as the names it has and the code point of each
EntityNamesKnown == {p[1] : p \in name2codepoint}
EntityCode(name) == (CHOOSE p \in name2codepoint : p[1] = name)[2]

\* C13: EntityRef(name) inserts, as a Data event would, the one character
\* of the name's code point when the name is in the entity table, and the
\* literal text & name ; for every other name.
C13_EntityRefFailsSoft ==
    [][Handles("EntityRef") =>
        InsertsText(IF ev'.text \in EntityNamesKnown
                    THEN <<EntityCode(ev'.text)>>
                    ELSE <<38>> \o ev'.text \o <<59>>)
    ]_vars

\* EntityRef zz after EntityRef amp: one Text node holding &&zz;
C13_Witness ==
    /\ ev.type = "EntityRef"
    /\ ev.text = S_zz
    /\ Len(nodes) = 2
    /\ nodes[2].data = <<38, 38, 122, 122, 59>>

IsDecDigit(c) == c >= 48 /\ c <= 57
IsHexDigit(c) == IsDecDigit(c) \/ (c >= 97 /\ c <= 102) \/ (c >= 65 /\ c <= 70)
HexVal(c) == IF IsDecDigit(c) THEN c - 48
             ELSE IF c >= 97 THEN c - 87 ELSE c - 55

\* the number a string of digits denotes in the base
RECURSIVE NumberOf(_, _)
NumberOf(s, base) ==
    IF s = <<>> THEN 0
    ELSE NumberOf(SubSeq(s, 1, Len(s) - 1), base) * base + HexVal(s[Len(s)])

\* the text the claim gives CharRef(raw): the character of the code point
\* for x and base-16 digits, or for base-10 digits, within 0 .. 0x10FFFF,
\* and the literal &# raw ; in every other case
CharRefText(raw) ==
    LET hex == /\ Len(raw) >= 2
               /\ raw[1] = 120
               /\ \A i \in 2 .. Len(raw) : IsHexDigit(raw[i])
        dec == raw # <<>> /\ \A i \in DOMAIN raw : IsDecDigit(raw[i])
        n == IF hex THEN NumberOf(Tail(raw), 16) ELSE NumberOf(raw, 10)
    IN IF (hex \/ dec) /\ n <= 1114111 THEN <<n>>
       ELSE <<38, 35>> \o raw \o <<59>>

\* C14: CharRef(raw) inserts, as a Data event would, the character of the
\* code point that x and base-16 digits, or base-10 digits, denote within
\* 0 .. 0x10FFFF, and the literal text &# raw ; in every other case.
C14_CharRefDigitsOnly ==
    [][Handles("CharRef") => InsertsText(CharRefText(ev'.text))]_vars

\* C15: the Element a StartTag(name, attrs) creates has exactly the
\* distinct attribute names of attrs as keys, one value a key, and each key
\* has the value of the last pair of attrs with that name.
C15_AttrsLastWins ==
    [][Handles("StartTag") =>
        LET pairs == ev'.attrs
            new == nodes'[Len(nodes) + 1].attrs
        IN /\ Len(nodes') = Len(nodes) + 1
           /\ {p[1] : p \in new} = {pairs[i][1] : i \in DOMAIN pairs}
           /\ \A p, q \in new : p[1] = q[1] => p = q
           /\ \A p \in new :
                \E i \in DOMAIN pairs :
                   /\ pairs[i] = p
                   /\ \A j \in DOMAIN pairs : pairs[j][1] = p[1] => j <= i
    ]_vars

\* StartTag b with id=2, class=x, id=1: the Element has id = 1, class = x
C15_Witness ==
    /\ ev.type = "StartTag"
    /\ Len(ev.attrs) = 3
    /\ nodes[curr_node].kind = "Tag"
    /\ nodes[curr_node].attrs = {<<"id", S_1>>, <<"class", S_x>>}

\* the step is a call of get_all_nodes or find_tags, or a next() on what
\* the call returned
Traverses == gen' # gen

\* C16: a call of get_all_nodes or find_tags, and every next() on the
\* sequence it returned, in either mode and with any filter, leaves every
\* node's child list, name, attributes, text buffer and parent link, the
\* declarations, the cursor and the caller's root sequence as they were.
C16_TraversalReadOnly ==
    [][Traverses =>
        /\ nodes' = nodes
        /\ decl' = decl
        /\ curr_node' = curr_node
        /\ IF gen.pc = "none" THEN node_list' = gen'.node_iter
           ELSE node_list' = node_list
    ]_vars

\* a find_tags over the Document of a tree of two nodes or more was
\* consumed to its end and selected a node
C16_Witness ==
    /\ flt.active
    /\ gen.pc = "done"
    /\ node_list = <<doc_node>>
    /\ Len(nodes) >= 3
    /\ Len(out) = Len(nodes)
    /\ found # <<>>

\* the nodes of the closed subtree of n
Subtree(heap, n) == {m \in DOMAIN heap : n \in Range(AncSelf(heap, m))}

\* how many child links lead from n down to m
DepthBelow(heap, n, m) ==
    Len(PathOf(heap, m, Len(heap))) - Len(PathOf(heap, n, Len(heap)))

\* document order of two paths: an ancestor before its descendants, an
\* earlier sibling's subtree before a later sibling's
PathBefore(p, q) ==
    \/ Len(p) < Len(q) /\ p = SubSeq(q, 1, Len(p))
    \/ \E i \in DOMAIN p \cap DOMAIN q :
          /\ p[i] < q[i]
          /\ \A j \in 1 .. i - 1 : p[j] = q[j]

\* the line that opens the output for node m at the level
HeadLine(heap, m, level) ==
    IF level >= 100
    THEN Line(m, 2 * level, "Error: level too big", "", {}, <<>>, <<>>)
    ELSE IF heap[m].kind = "Data"
    THEN Line(m, 2 * level, "DataHtmlNode", "", {}, heap[m].data, <<>>)
    ELSE IF heap[m].kind = "Doc"
    THEN Line(m, 2 * level, "DocHtmlNode", "", {}, <<>>, <<>>)
    ELSE Line(m, 2 * level, "TagHtmlNode", heap[m].name, {}, <<>>, <<>>)

\* the second line of a Document or an Element
AttrLine(heap, d, m, level) ==
    IF heap[m].kind = "Doc"
    THEN Line(m, 2 * level + 4, "decl", "", {}, <<>>, d)
    ELSE Line(m, 2 * level + 4, "attrs", "", heap[m].attrs, <<>>, <<>>)

IsHead(l) == l.line \notin {"decl", "attrs"}

\* what print_node printed, against the tree it was called on: print_node
\* at a level of 100 or more prints the one line
\* 'Error: level too big', whatever the node, and visits no child; from a
\* lower level no call is made above level 100, and the nodes of the
\* subtree that lie at levels up to 100 are printed once each in
\* depth-first document order, those below level 100 in their normal form
\* and those at level 100 as the one error line.
PrintedAsClaimed ==
    printed.called =>
        LET n == printed.node
            L == printed.level
            ls == printed.lines
            P(m) == PathOf(nodes, m, Len(nodes))
            Lev(m) == L + DepthBelow(nodes, n, m)
            Two(m) == IsContainer(nodes, m) /\ Lev(m) < 100
            heads == SelectSeq(ls, IsHead)
            Visited == {m \in Subtree(nodes, n) : Lev(m) <= 100}
        IN IF L >= 100
           THEN ls = <<Line(n, 2 * L, "Error: level too big",
                            "", {}, <<>>, <<>>)>>
           ELSE /\ \A i \in DOMAIN heads : heads[i].indent <= 2 * 100
                /\ {heads[i].node : i \in DOMAIN heads} = Visited
                /\ Len(heads) = Cardinality(Visited)
                /\ heads[1].node = n
                /\ \A i, j \in DOMAIN heads :
                      i < j => PathBefore(P(heads[i].node), P(heads[j].node))
                /\ \A k \in DOMAIN ls :
                      LET m == ls[k].node
                      IN IF IsHead(ls[k])
                         THEN /\ ls[k] = HeadLine(nodes, m, Lev(m))
                              /\ Two(m) =>
                                   /\ k + 1 \in DOMAIN ls
                                   /\ ~IsHead(ls[k + 1])
                                   /\ ls[k + 1].node = m
                         ELSE /\ k > 1
                              /\ IsHead(ls[k - 1])
                              /\ ls[k - 1].node = m
                              /\ Two(m)
                              /\ ls[k] = AttrLine(nodes, decl, m, Lev(m))

\* C17: every call of print_node prints as said above: one error line and
\* no child at a level of 100 or more; from a lower level no call above
\* level 100, and the nodes at levels below 100 in their normal form in
\* depth-first document order.
C17_PrintDepthBounded == [][printed' # printed => PrintedAsClaimed']_vars

\* the Document of Document -> Element -> Text printed from level 98: the
\* Text node is at level 100 and gets the error line
C17_Witness ==
    /\ printed.called
    /\ printed.node = doc_node
    /\ printed.level = 98
    /\ Len(nodes) = 3
    /\ nodes[2].kind = "Tag"
    /\ nodes[3].kind = "Data"
    /\ nodes[3].parent = 2
    /\ Len(printed.lines) = 5
    /\ printed.lines[5].line = "Error: level too big"
    /\ printed.lines[5].node = 3

\* n is the last child of its parent
IsLastChild(heap, n) ==
    /\ heap[n].parent \in DOMAIN heap
    /\ heap[heap[n].parent].childs # <<>>
    /\ heap[heap[n].parent].childs[Len(heap[heap[n].parent].childs)] = n

\* the cursor is the Document node, or the last child of its parent, and
\* so is its parent, up to the Document node
OnRightmostSpine ==
    /\ curr_node \in DOMAIN nodes
    /\ doc_node \in Range(AncSelf(nodes, curr_node))
    /\ \A m \in Range(AncSelf(nodes, curr_node)) :
          m = doc_node \/ IsLastChild(nodes, m)

\* the Element an EndTag(tag) closes: the nearest Element of that name
\* among the cursor and its ancestors, None when there is none
MatchedBy(heap, cur, tag) ==
    LET chain == AncSelf(heap, cur)
        hits == {i \in DOMAIN chain : /\ heap[chain[i]].kind = "Tag"
                                      /\ heap[chain[i]].name = tag}
    IN IF hits = {} THEN None
       ELSE chain[CHOOSE i \in hits : \A j \in hits : i <= j]

\* C18: the cursor is always on the rightmost spine of the tree; every
\* node an event creates comes after all existing nodes in document order,
\* and the Element an EndTag closes is the last child of its parent.
C18_CursorOnRightmostSpine ==
    /\ OnRightmostSpine
    /\ [][/\ OnRightmostSpine'
          /\ Len(nodes') > Len(nodes) =>
               /\ Len(nodes') = Len(nodes) + 1
               /\ Handles("StartTag") \/ Handles("Data")
                    \/ Handles("EntityRef") \/ Handles("CharRef")
               /\ \A m \in DOMAIN nodes :
                     PathBefore(PathOf(nodes', m, Len(nodes')),
                                PathOf(nodes', Len(nodes'), Len(nodes')))
          /\ (Handles("EndTag")
                /\ MatchedBy(nodes, curr_node, ev'.tag) # None) =>
               /\ IsLastChild(nodes, MatchedBy(nodes, curr_node, ev'.tag))
               /\ curr_node' =
                    nodes[MatchedBy(nodes, curr_node, ev'.tag)].parent
         ]_vars

\* EndTag b closed the second child of Element a, after a text: the cursor
\* is a, the last child of the Document
C18_Witness ==
    /\ ev.type = "EndTag"
    /\ ev.tag = "b"
    /\ curr_node = 2
    /\ Len(nodes) = 4
    /\ nodes[2].childs = <<3, 4>>
    /\ nodes[3].kind = "Data"
    /\ nodes[4].kind = "Tag"

\* C19: no child list of the Document or of an Element holds two Text
\* nodes at adjacent positions.
C19_NoAdjacentText ==
    \A n \in DOMAIN nodes :
       IsContainer(nodes, n) =>
          \A i \in 1 .. Len(nodes[n].childs) - 1 :
             ~(/\ nodes[nodes[n].childs[i]].kind = "Data"
               /\ nodes[nodes[n].childs[i + 1]].kind = "Data")

\* text arrived after an unmatched EndTag had left the cursor on a Text
\* node inside an Element, which took the text
C19_Witness ==
    /\ ev.type = "Data"
    /\ run.active
    /\ run.onText
    /\ nodes[curr_node].kind = "Data"
    /\ nodes[curr_node].parent # doc_node
    /\ Len(nodes[curr_node].data) >= 2

\* C20: across every builder event each child list, each text buffer and
\* the declarations are prefixes of their later values, only the Text
\* node that is the cursor grows, no node's kind, name, attributes or
\* parent changes, and no node disappears.
C20_AppendOnly ==
    [][nev' = nev + 1 =>
        /\ Len(nodes') >= Len(nodes)
        /\ IsPrefix(decl, decl')
        /\ \A n \in DOMAIN nodes :
              /\ IsPrefix(nodes[n].childs, nodes'[n].childs)
              /\ IsPrefix(nodes[n].data, nodes'[n].data)
              /\ nodes'[n].data # nodes[n].data =>
                    n = curr_node /\ nodes[n].kind = "Data"
              /\ nodes'[n].kind = nodes[n].kind
              /\ nodes'[n].name = nodes[n].name
              /\ nodes'[n].attrs = nodes[n].attrs
              /\ nodes'[n].parent = nodes[n].parent
    ]_vars

\* a Data event made the cursor's Text buffer longer in a tree that has an
\* Element with a child, after a declaration
C20_Witness ==
    /\ ev.type = "Data"
    /\ nodes[curr_node].kind = "Data"
    /\ Len(nodes[curr_node].data) >= 2
    /\ Len(nodes) >= 3
    /\ decl # <<>>
    /\ \E n \in DOMAIN nodes : nodes[n].kind = "Tag" /\ nodes[n].childs # <<>>

====
